---- MODULE Spec2Model ----
(***************************************************************************)
(* Model of django-settings-holder: the lazy attribute resolver            *)
(* SettingsHolder (src/settings_holder/holder.py), the reload bridge       *)
(* reload_settings, the settings_configured signal and the test helper     *)
(* SettingsWrapper (src/settings_holder/utils.py).  Spec is the holder     *)
(* used by one thread, SpecAssign and SpecDirect add direct assignments    *)
(* and deletions, SpecConfigure is the configuration of the host,          *)
(* SpecWrapper the wrappers over the host settings, SpecRace and           *)
(* SpecThreads the holder read by two threads.                             *)
(*                                                                         *)
(* Python strings are sequences of one-character strings, so that          *)
(* str.split, str.join, str.startswith and str.rsplit are modelled by what *)
(* they do on characters.  Python values are records [k, v]: k is the      *)
(* Python type, v the payload.  A dict is the sequence of its (key, value) *)
(* pairs in insertion order.                                               *)
(***************************************************************************)
EXTENDS Naturals, Sequences, FiniteSets, TLC

VARIABLES
    configured,        \* django.conf.settings.configured
    settings,          \* the host settings object: setting name -> value
    constructed,       \* whether SettingsHolder.__init__ has returned
    setting_name,      \* holder._setting_name
    defaults,          \* holder._defaults
    imports,           \* holder._imports, in the set's iteration order
    removed_settings,  \* holder._removed_settings
    validators,        \* holder._validators
    cached_attrs,      \* holder._cached_attrs
    settings_checked,  \* holder._settings_checked
    attrs,             \* the public attributes stored in the holder's __dict__
    last,              \* the operation that ran last and how it ended
    failed,            \* history: the names whose resolution has raised since the last reload
    to_restore,        \* each SettingsWrapper's __to_restore: the overrides it has enabled
    before,            \* history: the host settings at each wrapper's first change
    threads,           \* each thread's place in holder.<name> and its local variables
    signal,            \* settings_configured: its receivers, the flag of its sender, what was sent
    other              \* a second holder that shares the first one's defaults

vars == <<configured, settings, constructed, setting_name, defaults, imports,
          removed_settings, validators, cached_attrs, settings_checked, attrs, last,
          failed, to_restore, before, threads, signal, other>>

wrapper_vars == <<to_restore, before>>

signal_vars == <<signal, other>>

holder_args == <<setting_name, defaults, imports, removed_settings, validators>>

----------------------------------------------------------------------------
(* Characters and strings *)

DOT == "."
STAR == "*"

FOO == <<"F", "O", "O">>
FO == <<"F", "O">>
BAR == <<"B", "A", "R">>
BAZ == <<"B", "A", "Z">>
FOOBAR == <<"F", "O", "O", "B", "A", "R">>
FIZZ == <<"F", "I", "Z", "Z">>
OLD == <<"O", "L", "D">>
ERROR == <<"E", "R", "R", "O", "R">>
ZERO == <<"0">>

\* a + "." + b
Dotted(a, b) == a \o <<DOT>> \o b

\* s.startswith(prefix)
StartsWith(s, prefix) ==
    /\ Len(prefix) <= Len(s)
    /\ SubSeq(s, 1, Len(prefix)) = prefix

\* s.split("."): the segments between the periods, "" included
RECURSIVE Split(_)
Split(s) ==
    IF \A i \in 1..Len(s) : s[i] # DOT
    THEN <<s>>
    ELSE LET i == CHOOSE j \in 1..Len(s) :
                      s[j] = DOT /\ \A h \in 1..(j - 1) : s[h] # DOT
         IN <<SubSeq(s, 1, i - 1)>> \o Split(SubSeq(s, i + 1, Len(s)))

\* ".".join(parts)
RECURSIVE Join(_)
Join(parts) ==
    IF Len(parts) = 0 THEN <<>>
    ELSE IF Len(parts) = 1 THEN parts[1]
    ELSE parts[1] \o <<DOT>> \o Join(Tail(parts))

\* s.rsplit(".", 1): one element when s holds no period, else two
RSplit1(s) ==
    IF \A i \in 1..Len(s) : s[i] # DOT
    THEN <<s>>
    ELSE LET i == CHOOSE j \in 1..Len(s) :
                      s[j] = DOT /\ \A h \in (j + 1)..Len(s) : s[h] # DOT
         IN <<SubSeq(s, 1, i - 1), SubSeq(s, i + 1, Len(s))>>

----------------------------------------------------------------------------
(* Python values *)

NoneVal == [k |-> "none", v |-> <<>>]
Str(s) == [k |-> "str", v |-> s]
Num(s) == [k |-> "int", v |-> s]
List(items) == [k |-> "list", v |-> items]
Tuple(items) == [k |-> "tuple", v |-> items]
Dict(pairs) == [k |-> "dict", v |-> pairs]
Obj(path) == [k |-> "obj", v |-> path]

\* key in d, d[key] and set(d) of a dict value
DictHas(d, key) == \E i \in 1..Len(d.v) : d.v[i][1] = key
DictGet(d, key) == d.v[CHOOSE i \in 1..Len(d.v) : d.v[i][1] = key][2]
DictKeys(d) == {d.v[i][1] : i \in 1..Len(d.v)}

----------------------------------------------------------------------------
(* Exceptions.  The text of a message is kept as its parts: what is wrong, *)
(* the path and the value it names, and for ImproperlyConfigured the       *)
(* message lines that "\n".join(errors) puts together.  The errors come    *)
(* from iterating a set, so the order of the lines is not part of the      *)
(* model.                                                                  *)

NoError == [exc |-> "none", what |-> "none", lines |-> {}, path |-> <<>>, got |-> NoneVal]

ImproperlyConfigured(lines) ==
    [exc |-> "ImproperlyConfigured", what |-> "settings", lines |-> lines,
     path |-> <<>>, got |-> NoneVal]

NotConfigured ==
    [exc |-> "ImproperlyConfigured", what |-> "not_configured", lines |-> {},
     path |-> <<>>, got |-> NoneVal]

ValueError(what, path, got) ==
    [exc |-> "ValueError", what |-> what, lines |-> {}, path |-> path, got |-> got]

ImportError(what, val, setting) ==
    [exc |-> "ImportError", what |-> what, lines |-> {}, path |-> setting, got |-> Str(val)]

\* "Setting '<setting_name>.<name>' does not exist."
DoesNotExistLine(name) == [kind |-> "does_not_exist", name |-> name, instead |-> NoneVal]

\* "Setting '<setting_name>.<name>' has been removed." and, when new_setting is
\* not None, " Use '<setting_name>.<new_setting>' instead."
RemovedLine(name, new_setting) == [kind |-> "removed", name |-> name, instead |-> new_setting]

\* The outcome of a call: the value returned or the exception raised, and the
\* imported objects the call has invoked on the way, in order.
Returned(value) == [ok |-> TRUE, v |-> value, err |-> NoError, called |-> <<>>]
Raised(error) == [ok |-> FALSE, v |-> NoneVal, err |-> error, called |-> <<>>]

\* the outcome, after the objects of called were invoked before it
After(called, outcome) == [outcome EXCEPT !.called = called \o @]

----------------------------------------------------------------------------
(* The environment of the imports: sys.modules / import_module, the module *)
(* attributes, what the imported function returns, and the validator of    *)
(* the tests.                                                              *)

\* "t.u" stands for the module tests.test_utils, "f" for its function()
TEST_MODULE == <<"t", DOT, "u">>
FUNCTION == <<"f">>
FUNCTION_PATH == Dotted(TEST_MODULE, FUNCTION)
MISSING_ATTR_PATH == Dotted(TEST_MODULE, <<"x">>)
MISSING_MODULE_PATH == Dotted(<<"x", DOT, "u">>, FUNCTION)
\* ".f": the text before the last "." is empty
EMPTY_MODULE_PATH == <<DOT>> \o FUNCTION

\* the modules import_module can load, each with the attributes it defines
ModuleAttributes(module_path) ==
    IF module_path = TEST_MODULE THEN {FUNCTION} ELSE {}

Importable(module_path) == module_path = TEST_MODULE

\* function() of tests/test_utils.py returns "foo"
CallResult(obj) == Str(<<"f", "o", "o">>)

\* validator() of test_settings_holder__setting_validator: raises unless value == "bar"
MUST_BE_BAR == "must_be_bar"
\* a validator that raises unless the value is an imported object
MUST_BE_IMPORTED == "must_be_imported"
ValidatorAccepts(validator, value) ==
    /\ validator = MUST_BE_BAR => value = Str(<<"b", "a", "r">>)
    /\ validator = MUST_BE_IMPORTED => value.k = "obj"

----------------------------------------------------------------------------
(* SettingsHolder: the checks *)

\* check_setting that leaves the replacement out of the message
check_setting_NoReplacement(name) ==
    IF name \in DOMAIN defaults THEN {}
    ELSE IF name \notin DOMAIN removed_settings THEN {DoesNotExistLine(name)}
    ELSE {RemovedLine(name, NoneVal)}

\* check_setting(name): the message it raises with, as a set of at most one line
\* ({} when it returns)
check_setting(name) ==
    IF name \in DOMAIN defaults THEN {}
    ELSE IF name \notin DOMAIN removed_settings THEN {DoesNotExistLine(name)}
    ELSE {RemovedLine(name, removed_settings[name])}

\* getattr(settings, self._setting_name, {})
user_settings == IF setting_name \in DOMAIN settings THEN settings[setting_name] ELSE Dict(<<>>)

\* a check that raises at the first invalid name it meets
check_user_settings_FirstError(accessed) ==
    LET names == {name \in DictKeys(user_settings) \cup accessed : check_setting(name) # {}}
    IN IF names = {} THEN {} ELSE check_setting(CHOOSE name \in names : TRUE)

\* check_user_settings(**kwargs): the lines of the error it raises, {} when it
\* returns.  accessed is {} or {accessed_setting}.
check_user_settings(accessed) ==
    UNION {check_setting(user_setting) : user_setting \in DictKeys(user_settings) \cup accessed}

----------------------------------------------------------------------------
(* SettingsHolder: import resolution *)

\* substitute_wildcards(attr, value)
substitute_wildcards(attr, value) ==
    LET attr_parts == Split(attr)
        parts == Split(value)
    IN Join([idx \in 1..Len(parts) |->
                IF parts[idx] = <<STAR>> /\ Len(attr_parts) > idx - 1
                THEN attr_parts[idx]
                ELSE parts[idx]])

\* a result that drops the flag of the bytes marker
ImportSettingResults_NeverImmediate(is_import, is_immediate, is_nested) ==
    [is_import |-> is_import, is_immediate |-> FALSE, is_nested |-> is_nested]

ImportSettingResults(is_import, is_immediate, is_nested) ==
    [is_import |-> is_import, is_immediate |-> is_immediate, is_nested |-> is_nested]

\* the test of one marker in the loop of is_import_setting
MarkerMatches(attr, marker) == StartsWith(substitute_wildcards(attr, marker.pattern), attr)

\* is_import_setting(attr): the first marker, in iteration order, that matches
is_import_setting(attr) ==
    IF \E i \in 1..Len(imports) : MarkerMatches(attr, imports[i])
    THEN LET i == CHOOSE j \in 1..Len(imports) :
                      /\ MarkerMatches(attr, imports[j])
                      /\ \A h \in 1..(j - 1) : ~MarkerMatches(attr, imports[h])
             name == substitute_wildcards(attr, imports[i].pattern)
         IN ImportSettingResults(TRUE, imports[i].is_bytes, Len(name) > Len(attr))
    ELSE ImportSettingResults(FALSE, FALSE, FALSE)

\* import_from_string(val, setting).  import_module raises ValueError for the
\* empty module name and TypeError for a relative one; neither is an
\* ImportError, so neither is caught.
import_from_string(val, setting) ==
    LET split == RSplit1(val)
        module_path == split[1]
        class_name == split[2]
    IN IF Len(split) # 2
       THEN Raised(ImportError("not_a_module_path", val, setting))
       ELSE IF module_path = <<>>
       THEN Raised(ValueError("empty_module_name", setting, Str(val)))
       ELSE IF module_path[1] = DOT
       THEN Raised([NoError EXCEPT !.exc = "TypeError", !.what = "relative_import",
                                   !.path = setting, !.got = Str(val)])
       ELSE IF ~Importable(module_path)
       THEN Raised(ImportError("module_not_found", val, setting))
       ELSE IF class_name \notin ModuleAttributes(module_path)
       THEN Raised(ImportError("no_attribute", val, setting))
       ELSE Returned(Obj(val))

\* str(<generator object>): what type(value)(generator) gives when value is a str
GENERATOR_REPR == Str(<<"<", "g", "e", "n", "e", "r", "a", "t", "o", "r", ">">>)

\* make_imports(name, value).  ImportItems is the generator over a sequence,
\* ImportPairs the generator over a mapping's items: the first element that
\* raises ends the whole call.
RECURSIVE make_imports(_, _), ImportItems(_, _), ImportPairs(_, _)
make_imports(name, value) ==
    LET results == is_import_setting(name)
    IN IF ~results.is_import THEN Returned(value)
       ELSE IF ~results.is_nested
       THEN IF value.k # "str"
            THEN Raised(ValueError("should_be_a_string", name, value))
            ELSE LET imported == import_from_string(value.v, name)
                 IN IF imported.ok /\ results.is_immediate
                    THEN After(<<imported.v>>, Returned(CallResult(imported.v)))
                    ELSE imported
       ELSE IF value.k = "str" THEN Returned(GENERATOR_REPR)
       ELSE IF value.k \in {"list", "tuple"}
       THEN LET items == ImportItems(name, value.v)
            IN IF items.ok
               THEN After(items.called, Returned([k |-> value.k, v |-> items.v]))
               ELSE items
       ELSE IF value.k = "dict"
       THEN LET pairs == ImportPairs(name, value.v)
            IN IF pairs.ok THEN After(pairs.called, Returned(Dict(pairs.v))) ELSE pairs
       ELSE Raised(ValueError("should_be_a_mutable_sequence_or_mapping", name, value))

\* a generator that resolves the element at index 0 only
ImportItems_FirstOnly(name, items) ==
    IF Len(items) = 0 THEN Returned(<<>>)
    ELSE LET head == make_imports(Dotted(name, ZERO), Head(items))
         IN IF ~head.ok THEN head
            ELSE After(head.called, Returned(<<head.v>> \o Tail(items)))

ImportItems(name, items) ==
    IF Len(items) = 0 THEN Returned(<<>>)
    ELSE LET head == make_imports(Dotted(name, ZERO), Head(items))
         IN IF ~head.ok THEN head
            ELSE LET rest == ImportItems(name, Tail(items))
                 IN IF ~rest.ok THEN After(head.called, rest)
                    ELSE After(head.called \o rest.called, Returned(<<head.v>> \o rest.v))

ImportPairs(name, pairs) ==
    IF Len(pairs) = 0 THEN Returned(<<>>)
    ELSE LET key == Head(pairs)[1]
             head == make_imports(Dotted(name, key), Head(pairs)[2])
         IN IF ~head.ok THEN head
            ELSE LET rest == ImportPairs(name, Tail(pairs))
                 IN IF ~rest.ok THEN After(head.called, rest)
                    ELSE After(head.called \o rest.called,
                               Returned(<<(<<key, head.v>>)>> \o rest.v))

----------------------------------------------------------------------------
(* The inputs: the holders the tests construct, the values the host gives  *)
(* the namespace, the names read, the setting names of change events.      *)

MOCK_SETTING == "MOCK_SETTING"
TEST_SETTING == "TEST_SETTING"
SettingNames == {MOCK_SETTING, TEST_SETTING}

Marker(pattern) == [pattern |-> pattern, is_bytes |-> FALSE]
BytesMarker(pattern) == [pattern |-> pattern, is_bytes |-> TRUE]

HolderArgs(d, i, r, v) ==
    [setting_name |-> MOCK_SETTING, defaults |-> d, import_strings |-> i,
     removed_settings |-> r, validators |-> v]

NoMapping == <<>>

BarStr == Str(<<"b", "a", "r">>)
BazStr == Str(<<"b", "a", "z">>)
FizzbuzzStr == Str(<<"f", "i", "z", "z", "b", "u", "z", "z">>)
One == Num(<<"1">>)

HolderConfigs ==
    { \* defaults, removed settings and a validator, no imports
      HolderArgs(FOO :> BazStr @@ BAZ :> One, {},
                 FIZZ :> NoneVal @@ OLD :> Str(FOO), FOO :> MUST_BE_BAR),
      \* test_settings_holder__import_function and __called_on_access
      HolderArgs(FOO :> Str(FUNCTION_PATH) @@ BAZ :> One, {Marker(FOO)}, NoMapping, NoMapping),
      HolderArgs(FOO :> Str(FUNCTION_PATH), {BytesMarker(FOO)}, NoMapping, FOO :> MUST_BE_BAR),
      \* test_settings_holder__import_function__list
      HolderArgs(FOO :> List(<<Str(FUNCTION_PATH), Str(FUNCTION_PATH)>>),
                 {Marker(Dotted(FOO, ZERO))}, NoMapping, NoMapping),
      \* test_settings_holder__import_function__dict__all_keys
      HolderArgs(FOO :> Dict(<<(<<BAR, Str(FUNCTION_PATH)>>), (<<BAZ, Str(FUNCTION_PATH)>>)>>),
                 {Marker(Dotted(FOO, <<STAR>>))}, NoMapping, NoMapping),
      \* test_settings_holder__import_function__dict__all_keys__deeper
      HolderArgs(FOO :> Dict(<<(<<BAR, Dict(<<(<<FOO, Str(FUNCTION_PATH)>>)>>)>>)>>),
                 {Marker(Dotted(Dotted(FOO, <<STAR>>), FOO))}, NoMapping, NoMapping),
      \* a marker whose name starts with the name of another setting
      HolderArgs(FOO :> One @@ FOOBAR :> Str(FUNCTION_PATH), {Marker(FOOBAR)},
                 NoMapping, NoMapping),
      \* test_settings_holder__import_function__called_on_access
      HolderArgs(FOO :> Str(FUNCTION_PATH), {BytesMarker(FOO)}, NoMapping, NoMapping),
      \* an import string with a validator of the imported object
      HolderArgs(FOO :> Str(FUNCTION_PATH), {Marker(FOO)}, NoMapping, FOO :> MUST_BE_IMPORTED),
      \* test_settings_holder__import_function__tuple
      HolderArgs(FOO :> Tuple(<<Str(FUNCTION_PATH), Str(FUNCTION_PATH)>>),
                 {Marker(Dotted(FOO, ZERO))}, NoMapping, NoMapping),
      \* test_settings_holder__import_function__list__called_on_access
      HolderArgs(FOO :> List(<<Str(FUNCTION_PATH), Str(FUNCTION_PATH)>>),
                 {BytesMarker(Dotted(FOO, ZERO))}, NoMapping, NoMapping),
      \* test_settings_holder__import_function__dict__called_on_access
      HolderArgs(FOO :> Dict(<<(<<BAR, Str(FUNCTION_PATH)>>), (<<BAZ, One>>)>>),
                 {BytesMarker(Dotted(FOO, BAR))}, NoMapping, NoMapping),
      \* test_settings_holder__import_function__dict__all_keys__bytes
      HolderArgs(FOO :> Dict(<<(<<BAR, Str(FUNCTION_PATH)>>), (<<BAZ, Str(FUNCTION_PATH)>>)>>),
                 {BytesMarker(Dotted(FOO, <<STAR>>))}, NoMapping, NoMapping),
      \* the plain and the bytes marker of one pattern
      HolderArgs(FOO :> Str(FUNCTION_PATH), {Marker(FOO), BytesMarker(FOO)},
                 NoMapping, NoMapping),
      \* a marker of a setting and a marker of a key inside it
      HolderArgs(FOO :> Dict(<<(<<BAR, Str(FUNCTION_PATH)>>)>>),
                 {Marker(FOO), Marker(Dotted(FOO, BAR))}, NoMapping, NoMapping) }

\* the values the host gives the namespace MOCK_SETTING
UserSettingsChoices ==
    { Dict(<<>>),
      Dict(<<(<<FOO, BarStr>>)>>),
      Dict(<<(<<FOO, FizzbuzzStr>>)>>),
      Dict(<<(<<FOO, BarStr>>), (<<ERROR, BarStr>>)>>),
      Dict(<<(<<FIZZ, BarStr>>), (<<OLD, BarStr>>)>>),
      Dict(<<(<<FOO, Str(FUNCTION_PATH)>>)>>),
      Dict(<<(<<FOO, Str(MISSING_ATTR_PATH)>>)>>),
      Dict(<<(<<FOO, Str(EMPTY_MODULE_PATH)>>)>>),
      Dict(<<(<<FOO, One>>)>>),
      Dict(<<(<<FOO, Dict(<<(<<BAR, Dict(<<(<<FO, One>>)>>)>>)>>)>>)>>),
      Dict(<<(<<FOO, Dict(<<(<<BAR, Dict(<<(<<FOO, Str(FUNCTION_PATH)>>), (<<BAZ, One>>)>>)>>)>>)>>)>>) }

AccessNames == {FOO, BAZ, FOOBAR, FIZZ, OLD, ERROR}

\* the SettingsWrappers of test_settings_wrapper__nested, the settings they
\* set and delete and the value they set
wrapper1 == <<"w", "1">>
wrapper2 == <<"w", "2">>
Wrappers == {wrapper1, wrapper2}
WrapperAttrs == {TEST_SETTING, MOCK_SETTING}
WrapperValues == {BarStr}
MaxOverrides == 2

\* the names and the value of direct assignments and deletions: a setting, a
\* name outside defaults and a private name
PRIVATE == <<"_", "x">>
DirectNames == {FOO, ERROR, PRIVATE}
DirectValues == {BarStr}

\* the threads that read the holder, the name they read, the holders they
\* share and the values the host gives the namespace meanwhile
Threads == {1, 2}
ThreadNames == {FOO}
ThreadConfigs ==
    { HolderArgs(FOO :> BazStr, {}, NoMapping, NoMapping),
      HolderArgs(FOO :> BarStr, {}, NoMapping, FOO :> MUST_BE_BAR),
      HolderArgs(FOO :> Str(FUNCTION_PATH), {Marker(FOO)}, NoMapping, FOO :> MUST_BE_IMPORTED) }
ThreadHosts ==
    { Dict(<<>>),
      Dict(<<(<<FOO, BarStr>>)>>),
      Dict(<<(<<FOO, FizzbuzzStr>>)>>),
      Dict(<<(<<FOO, BarStr>>), (<<ERROR, BarStr>>)>>) }

\* no change made yet: the history of a wrapper that has enabled no override
NoChange == [settings |-> NoMapping, outer |-> {}, made |-> FALSE]

\* the orders in which a set can be iterated
Orders(S) ==
    {order \in [1..Cardinality(S) -> S] :
        \A i, j \in 1..Cardinality(S) : order[i] = order[j] => i = j}

----------------------------------------------------------------------------
(* The operations *)

\* What an operation did: its name and argument, whether it returned, the
\* value or the exception, the calls it made, the imported objects it invoked
\* and the attributes it deleted.
Last(op, name, result, calls) ==
    [op |-> op, name |-> name, ok |-> result.ok, value |-> result.v,
     err |-> result.err, calls |-> calls, invoked |-> result.called, deleted |-> {}]

NoName == <<>>

\* a thread that has not read the holder
IdleThread ==
    [pc |-> "idle", name |-> NoName, raw |-> NoneVal, value |-> NoneVal,
     did |-> {}, err |-> NoError, reloaded |-> FALSE]

\* str.lower() on the names of the namespaces
lower(name) ==
    CASE name = MOCK_SETTING -> "mock_setting"
      [] name = TEST_SETTING -> "test_setting"

\* dispatch_uid = f"configure_{setting_name.lower()}"
dispatch_uid(name) == <<"configure_", lower(name)>>

\* Signal.connect(holder.check_user_settings, dispatch_uid=...): a receiver
\* whose key is connected already is not added.  A holder whose __init__
\* raised is released, and its weak receiver is dead: it is left out.
connect(holder, uid) ==
    IF \E i \in 1..Len(signal.receivers) : signal.receivers[i].uid = uid
    THEN signal
    ELSE [signal EXCEPT !.receivers = Append(@, [uid |-> uid, holder |-> holder])]

\* settings_configured = Signal(), and the closure of the wrappers before any
\* call: nothing connected, nothing sent
NoSignal == [configured |-> FALSE, receivers |-> <<>>, sent |-> <<>>, called |-> {}]

NoOther == [constructed |-> FALSE, setting_name |-> MOCK_SETTING, settings_checked |-> FALSE]

\* No holder has been constructed yet.
NoHolder ==
    /\ constructed = FALSE
    /\ signal = NoSignal
    /\ other = NoOther
    /\ setting_name = MOCK_SETTING
    /\ defaults = NoMapping
    /\ imports = <<>>
    /\ removed_settings = NoMapping
    /\ validators = NoMapping
    /\ cached_attrs = {}
    /\ settings_checked = FALSE
    /\ attrs = NoMapping
    /\ last = Last("none", NoName, Returned(NoneVal), {})
    /\ failed = {}
    /\ to_restore = [w \in Wrappers |-> <<>>]
    /\ before = [w \in Wrappers |-> NoChange]
    /\ threads = [t \in Threads |-> IdleThread]

\* The host is configured, as it is under the tests' settings module.
Init ==
    /\ configured = TRUE
    /\ settings \in {NoMapping} \cup {MOCK_SETTING :> u : u \in UserSettingsChoices}
    /\ NoHolder

\* SettingsHolder.__init__: with the host configured it checks the user
\* settings, and the error of that check leaves no holder behind.
__init__(args, order) ==
    /\ ~constructed
    /\ setting_name' = args.setting_name
    /\ defaults' = args.defaults
    /\ imports' = order
    /\ removed_settings' = args.removed_settings
    /\ validators' = args.validators
    /\ cached_attrs' = {}
    /\ attrs' = NoMapping
    /\ failed' = {}
    /\ UNCHANGED <<configured, settings, wrapper_vars, threads, other>>
    /\ LET errors == IF configured THEN check_user_settings({})' ELSE {}
       IN /\ settings_checked' = (configured /\ errors = {})
          /\ constructed' = (errors = {})
          /\ signal' = IF errors = {}
                       THEN connect("holder", dispatch_uid(args.setting_name))
                       ELSE signal
          /\ last' = Last("__init__", NoName,
                          IF errors = {} THEN Returned(NoneVal)
                          ELSE Raised(ImproperlyConfigured(errors)),
                          IF configured THEN {"check_user_settings"} ELSE {})

\* a lookup that never asks the host
LookupValue_DefaultsOnly(attr) == defaults[attr]

\* user_settings[attr], and self._defaults[attr] on KeyError
LookupValue(attr) ==
    IF DictHas(user_settings, attr) THEN DictGet(user_settings, attr) ELSE defaults[attr]

\* the validator call of __getattr__: the value it lets through, or its error
Validate(attr, value) ==
    IF attr \in DOMAIN validators /\ ~ValidatorAccepts(validators[attr], value)
    THEN Raised(ValueError("validator", attr, value))
    ELSE Returned(value)

\* a resolution that hands the validator the value as looked up, before the
\* imports are made
Resolve_ValidatesLookup(attr) ==
    LET checked == Validate(attr, LookupValue(attr))
    IN IF checked.ok THEN make_imports(attr, LookupValue(attr)) ELSE checked

\* SettingsHolder.__getattr__ from the lookup to the validator: what it goes
\* on to store, or what it raises with
Resolve(attr) ==
    LET value == make_imports(attr, LookupValue(attr))
    IN IF value.ok THEN After(value.called, Validate(attr, value.v)) ELSE value

\* __setattr__ without the call of super().__setattr__: the name is noted as
\* cached and the value is not stored
setattr_NotStored(attr, val) ==
    /\ cached_attrs' = IF attr[1] # "_" /\ attr \in DOMAIN defaults
                       THEN cached_attrs \cup {attr}
                       ELSE cached_attrs
    /\ attrs' = attrs

\* SettingsHolder.__setattr__
__setattr__(attr, val) ==
    /\ cached_attrs' = IF attr[1] # "_" /\ attr \in DOMAIN defaults
                       THEN cached_attrs \cup {attr}
                       ELSE cached_attrs
    /\ attrs' = (attr :> val) @@ attrs

\* setattr(self, attr, value) moved before the validator call
CacheResult_BeforeValidation(attr) ==
    IF make_imports(attr, LookupValue(attr)).ok
    THEN __setattr__(attr, make_imports(attr, LookupValue(attr)).v)
    ELSE UNCHANGED <<cached_attrs, attrs>>

\* the end of __getattr__: setattr(self, attr, value) is reached only when
\* neither make_imports nor the validator has raised
CacheResult(attr) ==
    IF Resolve(attr).ok
    THEN __setattr__(attr, Resolve(attr).v)
    ELSE UNCHANGED <<cached_attrs, attrs>>

\* SettingsHolder.__getattr__
__getattr__(attr) ==
    /\ UNCHANGED <<configured, settings, constructed, holder_args>>
    /\ IF ~configured
       THEN /\ UNCHANGED <<cached_attrs, attrs, settings_checked, failed>>
            /\ last' = Last("__getattr__", attr, Raised(NotConfigured), {})
       ELSE LET errors == IF ~settings_checked THEN check_user_settings({attr})
                          ELSE check_setting(attr)
                check == IF ~settings_checked THEN "check_user_settings" ELSE "check_setting"
            IN IF errors # {}
               THEN /\ UNCHANGED <<cached_attrs, attrs, settings_checked, failed>>
                    /\ last' = Last("__getattr__", attr,
                                    Raised(ImproperlyConfigured(errors)), {check})
               ELSE LET result == Resolve(attr)
                        calls == {check, "user_settings", "make_imports"}
                                 \cup (IF attr \in DOMAIN validators
                                          /\ make_imports(attr, LookupValue(attr)).ok
                                       THEN {"validator"} ELSE {})
                                 \cup (IF result.ok THEN {"__setattr__"} ELSE {})
                    IN /\ settings_checked' = TRUE
                       /\ CacheResult(attr)
                       /\ failed' = IF result.ok THEN failed ELSE failed \cup {attr}
                       /\ last' = Last("__getattr__", attr, result, calls)

\* holder.<name>: object.__getattribute__ finds a stored attribute, and only
\* when there is none is __getattr__ called
Access(name) ==
    /\ constructed
    /\ UNCHANGED <<wrapper_vars, threads, signal_vars>>
    /\ IF name \in DOMAIN attrs
       THEN /\ last' = Last("__getattribute__", name, Returned(attrs[name]), {})
            /\ UNCHANGED <<configured, settings, constructed, holder_args,
                           cached_attrs, attrs, settings_checked, failed>>
       ELSE __getattr__(name)

\* reload that clears the set of cached names and leaves the attributes stored
reload_AttributesKept(op, name) ==
    /\ attrs' = attrs
    /\ cached_attrs' = {}
    /\ settings_checked' = FALSE
    /\ failed' = {}
    /\ last' = Last(op, name, Returned(NoneVal), {"reload"})

\* reload that deletes the attributes and does not clear the set of cached names
reload_NamesKept(op, name) ==
    /\ attrs' = [n \in DOMAIN attrs \ cached_attrs |-> attrs[n]]
    /\ cached_attrs' = cached_attrs
    /\ settings_checked' = FALSE
    /\ failed' = {}
    /\ last' = [Last(op, name, Returned(NoneVal), {"reload"})
                   EXCEPT !.deleted = cached_attrs \cap DOMAIN attrs]

\* SettingsHolder.reload, called as op.  delattr raises AttributeError for a
\* name that is not stored; the names deleted before it are then gone, the
\* rest is as it was.
reload(op, name) ==
    IF cached_attrs \subseteq DOMAIN attrs
    THEN /\ attrs' = [n \in DOMAIN attrs \ cached_attrs |-> attrs[n]]
         /\ cached_attrs' = {}
         /\ settings_checked' = FALSE
         /\ failed' = {}
         /\ last' = [Last(op, name, Returned(NoneVal), {"reload"})
                        EXCEPT !.deleted = cached_attrs]
    ELSE \E deleted \in SUBSET (cached_attrs \cap DOMAIN attrs) :
         /\ attrs' = [n \in DOMAIN attrs \ deleted |-> attrs[n]]
         /\ UNCHANGED <<cached_attrs, settings_checked, failed>>
         /\ last' = [Last(op, name, Raised([NoError EXCEPT !.exc = "AttributeError"]),
                          {"reload"})
                        EXCEPT !.deleted = deleted]

\* a reload that also forgets the defaults
Reload_ForgetsDefaults ==
    /\ constructed
    /\ reload("reload", NoName)
    /\ defaults' = NoMapping
    /\ UNCHANGED <<configured, settings, constructed, setting_name, imports,
                   removed_settings, validators, wrapper_vars, threads, signal_vars>>

\* holder.reload()
Reload ==
    /\ constructed
    /\ reload("reload", NoName)
    /\ UNCHANGED <<configured, settings, constructed, holder_args, wrapper_vars, threads, signal_vars>>

\* a handler that reloads whatever setting has changed
wrapper_AnySetting(name, setting) == reload("wrapper", setting)

\* the handler that reload_settings(name, setting_holder) returns, called with
\* setting=<setting>
wrapper(name, setting) ==
    IF setting = name
    THEN reload("wrapper", setting)
    ELSE /\ UNCHANGED <<cached_attrs, attrs, settings_checked, failed>>
         /\ last' = Last("wrapper", setting, Returned(NoneVal), {})

\* a change event of the host reaches the handler that the template connects:
\* reload_settings(SETTING_NAME, my_settings)
Handler(setting) ==
    /\ constructed
    /\ wrapper(setting_name, setting)
    /\ UNCHANGED <<configured, settings, constructed, holder_args, wrapper_vars, threads, signal_vars>>

\* the host gives the namespace another value, or drops it, and no handler runs
HostChange(value) ==
    /\ settings' = IF value = NoneVal THEN NoMapping ELSE (MOCK_SETTING :> value)
    /\ settings' # settings
    /\ last' = Last("host_change", NoName, Returned(NoneVal), {})
    /\ UNCHANGED <<configured, constructed, holder_args, cached_attrs, attrs,
                   settings_checked, failed, wrapper_vars, threads, signal_vars>>

Next ==
    \/ \E args \in HolderConfigs : \E order \in Orders(args.import_strings) : __init__(args, order)
    \/ \E name \in AccessNames : Access(name)
    \/ Reload
    \/ \E setting \in SettingNames : Handler(setting)
    \/ \E value \in UserSettingsChoices \cup {NoneVal} : HostChange(value)

Spec == Init /\ [][Next]_vars

----------------------------------------------------------------------------
(* Direct assignment and deletion of the holder's attributes *)

\* an assignment that notes every public name as cached, in defaults or not
Assign_NotesAnyName(name, value) ==
    /\ constructed
    /\ cached_attrs' = IF name[1] # "_" THEN cached_attrs \cup {name} ELSE cached_attrs
    /\ attrs' = (name :> value) @@ attrs
    /\ last' = Last("assign", name, Returned(NoneVal), {"__setattr__"})
    /\ UNCHANGED <<configured, settings, constructed, holder_args, settings_checked,
                   failed, wrapper_vars, threads, signal_vars>>

\* holder.<name> = value
Assign(name, value) ==
    /\ constructed
    /\ __setattr__(name, value)
    /\ last' = Last("assign", name, Returned(NoneVal), {"__setattr__"})
    /\ UNCHANGED <<configured, settings, constructed, holder_args, settings_checked,
                   failed, wrapper_vars, threads, signal_vars>>

\* del holder.<name>: object.__delattr__ removes a stored attribute and
\* raises AttributeError when there is none; _cached_attrs is not touched
Delete(name) ==
    /\ constructed
    /\ IF name \in DOMAIN attrs
       THEN /\ attrs' = [n \in DOMAIN attrs \ {name} |-> attrs[n]]
            /\ last' = [Last("delete", name, Returned(NoneVal), {}) EXCEPT !.deleted = {name}]
       ELSE /\ attrs' = attrs
            /\ last' = Last("delete", name,
                            Raised([NoError EXCEPT !.exc = "AttributeError"]), {})
    /\ UNCHANGED <<configured, settings, constructed, holder_args, cached_attrs,
                   settings_checked, failed, wrapper_vars, threads, signal_vars>>

\* the holder used with accesses, reloads and direct assignments
NextAssign ==
    \/ \E args \in HolderConfigs : \E order \in Orders(args.import_strings) : __init__(args, order)
    \/ \E name \in AccessNames : Access(name)
    \/ Reload
    \/ \E name \in DirectNames : \E value \in DirectValues : Assign(name, value)

SpecAssign == Init /\ [][NextAssign]_vars

\* the same, with direct deletions
NextDirect ==
    \/ NextAssign
    \/ \E name \in DirectNames : Delete(name)

SpecDirect == Init /\ [][NextDirect]_vars

----------------------------------------------------------------------------
(* The configuration of the host and the settings_configured signal *)

\* the Django setting whose first read sets the host up
DEBUG == <<"D", "E", "B", "U", "G">>

\* the argument of _setup: the name of the setting that was read, or none
SetupNames == {NoName, DEBUG}

\* what the host is configured with: no namespace, or a value of the namespace
HostOptions == {NoMapping} \cup {MOCK_SETTING :> u : u \in UserSettingsChoices}

\* check_user_settings of the second holder over the host's settings: its
\* namespace is name, its defaults and removed settings are the first holder's
OtherCheck(host, name, accessed) ==
    LET namespace == IF name \in DOMAIN host THEN host[name] ELSE Dict(<<>>)
    IN UNION {check_setting(user_setting) : user_setting \in DictKeys(namespace) \cup accessed}

\* SettingsHolder.__init__ of the second holder, for the namespace name
OtherInit(name) ==
    /\ constructed
    /\ ~other.constructed
    /\ LET errors == IF configured THEN OtherCheck(settings, name, {}) ELSE {}
       IN /\ other' = IF errors = {}
                      THEN [constructed |-> TRUE, setting_name |-> name,
                            settings_checked |-> configured]
                      ELSE other
          /\ signal' = IF errors = {} THEN connect("other", dispatch_uid(name)) ELSE signal
          /\ last' = Last("other_init", NoName,
                          IF errors = {} THEN Returned(NoneVal)
                          ELSE Raised(ImproperlyConfigured(errors)),
                          IF configured THEN {"check_user_settings"} ELSE {})
    /\ UNCHANGED <<configured, settings, constructed, holder_args, cached_attrs, attrs,
                   settings_checked, failed, wrapper_vars, threads>>

\* wrapper of signal_wrapper, after func has returned: the first such call
\* sends settings_configured with accessed, {} or {accessed_setting}.
\* Signal.send calls the receivers in the order of their connection, and the
\* exception of a receiver ends the sending and leaves the wrapper.
signal_wrapper(op, name, accessed) ==
    IF signal.configured
    THEN /\ last' = Last(op, name, Returned(NoneVal), {})
         /\ UNCHANGED <<settings_checked, signal_vars>>
    ELSE LET receivers == signal.receivers
             errors(i) == IF receivers[i].holder = "holder"
                          THEN check_user_settings(accessed)'
                          ELSE OtherCheck(settings', other.setting_name, accessed)
             raising == {i \in 1..Len(receivers) : errors(i) # {}}
             stop == IF raising = {} THEN Len(receivers)
                     ELSE CHOOSE i \in raising : \A j \in raising : i <= j
             returned(holder) == \E i \in 1..stop : receivers[i].holder = holder /\ errors(i) = {}
         IN /\ signal' = [signal EXCEPT !.configured = TRUE,
                                        !.sent = Append(@, accessed),
                                        !.called = {receivers[i].holder : i \in 1..stop}]
            /\ settings_checked' = (settings_checked \/ returned("holder"))
            /\ other' = [other EXCEPT !.settings_checked = @ \/ returned("other")]
            /\ last' = Last(op, name,
                            IF raising = {} THEN Returned(NoneVal)
                            ELSE Raised(ImproperlyConfigured(errors(stop))),
                            {"send"})

\* settings.configure(**options) through the wrapper: LazySettings.configure
\* raises RuntimeError when the host is configured already
configure(options) ==
    /\ UNCHANGED <<constructed, holder_args, cached_attrs, attrs, failed, wrapper_vars, threads>>
    /\ IF configured
       THEN /\ last' = Last("configure", NoName,
                            Raised([NoError EXCEPT !.exc = "RuntimeError"]), {})
            /\ UNCHANGED <<configured, settings, settings_checked, signal_vars>>
       ELSE /\ configured' = TRUE
            /\ settings' = options
            /\ signal_wrapper("configure", NoName, {})

\* settings._setup(name) through the wrapper: LazySettings._setup raises
\* ImproperlyConfigured when DJANGO_SETTINGS_MODULE is not set (module is
\* None), and loads the settings module otherwise
_setup(name, module) ==
    /\ UNCHANGED <<constructed, holder_args, cached_attrs, attrs, failed, wrapper_vars, threads>>
    /\ IF module = NoneVal
       THEN /\ last' = Last("_setup", name, Raised(NotConfigured), {})
            /\ UNCHANGED <<configured, settings, settings_checked, signal_vars>>
       ELSE /\ configured' = TRUE
            /\ settings' = module
            /\ signal_wrapper("_setup", name, IF name = NoName THEN {} ELSE {name})

\* no holder, and a host that is not configured yet
InitConfigure ==
    /\ configured = FALSE
    /\ settings = NoMapping
    /\ NoHolder

\* holders are constructed and the host is configured, in any order
NextConfigure ==
    \/ \E args \in HolderConfigs : \E order \in Orders(args.import_strings) : __init__(args, order)
    \/ \E name \in SettingNames : OtherInit(name)
    \/ \E options \in HostOptions : configure(options)
    \/ \E name \in SetupNames : \E module \in HostOptions \cup {NoneVal} : _setup(name, module)

SpecConfigure == InitConfigure /\ [][NextConfigure]_vars

----------------------------------------------------------------------------
(* SettingsWrapper.  override_settings is django's: enable() puts a new     *)
(* layer with the options over the current settings and keeps the settings *)
(* it has replaced, disable() puts those back.  A layer is not changed     *)
(* once another layer is over it, so a layer is modelled by the settings   *)
(* that are seen through it.                                               *)

\* override_settings(**options).enable(): the settings seen with the options
\* in the new layer
enable(current, options) ==
    [n \in DOMAIN current \cup DOMAIN options |->
        IF n \in DOMAIN options THEN options[n] ELSE current[n]]

\* delattr(settings, attr): the new layer hides attr
delattr(current, attr) == [n \in DOMAIN current \ {attr} |-> current[n]]

\* the override that goes into __to_restore: it keeps the settings it replaced
Override(current) == [wrapped |-> current]

\* the history of wrapper w when it enables an override
FirstChange(w) ==
    IF to_restore[w] = <<>>
    THEN [before EXCEPT ![w] = [settings |-> settings, made |-> TRUE,
                                outer |-> {o \in Wrappers : to_restore[o] # <<>>}]]
    ELSE before

\* SettingsWrapper.__setattr__(attr, value)
SettingsWrapper_setattr(w, attr, value) ==
    /\ Len(to_restore[w]) < MaxOverrides
    /\ settings' = enable(settings, attr :> value)
    /\ to_restore' = [to_restore EXCEPT ![w] = Append(@, Override(settings))]
    /\ before' = FirstChange(w)
    /\ last' = Last("SettingsWrapper.__setattr__", w, Returned(NoneVal), {})
    /\ UNCHANGED <<configured, constructed, holder_args, cached_attrs, attrs,
                   settings_checked, failed, threads, signal_vars>>

\* SettingsWrapper.__delattr__(attr)
SettingsWrapper_delattr(w, attr) ==
    /\ Len(to_restore[w]) < MaxOverrides
    /\ settings' = delattr(enable(settings, NoMapping), attr)
    /\ to_restore' = [to_restore EXCEPT ![w] = Append(@, Override(settings))]
    /\ before' = FirstChange(w)
    /\ last' = Last("SettingsWrapper.__delattr__", w, Returned(NoneVal), {})
    /\ UNCHANGED <<configured, constructed, holder_args, cached_attrs, attrs,
                   settings_checked, failed, threads, signal_vars>>

\* the loop of finalize run over the overrides first to last
RECURSIVE DisableInOrder(_, _), DisableReversed(_, _)
DisableInOrder(overrides, current) ==
    IF overrides = <<>> THEN current
    ELSE DisableInOrder(Tail(overrides), Head(overrides).wrapped)

\* for override in reversed(self.__to_restore): override.disable()
DisableReversed(overrides, current) ==
    IF overrides = <<>> THEN current
    ELSE DisableReversed(SubSeq(overrides, 1, Len(overrides) - 1),
                         overrides[Len(overrides)].wrapped)

\* SettingsWrapper.finalize()
finalize(w) ==
    /\ settings' = DisableReversed(to_restore[w], settings)
    /\ to_restore' = [to_restore EXCEPT ![w] = <<>>]
    /\ last' = Last("SettingsWrapper.finalize", w, Returned(NoneVal), {})
    /\ UNCHANGED <<configured, constructed, holder_args, cached_attrs, attrs,
                   settings_checked, failed, before, threads, signal_vars>>

\* the test settings module, seen through two wrappers and no holder
InitWrapper ==
    /\ configured = TRUE
    /\ settings = (TEST_SETTING :> Str(<<"f", "o", "o">>))
    /\ NoHolder

NextWrapper ==
    \/ \E w \in Wrappers : \E attr \in WrapperAttrs : \E value \in WrapperValues :
          SettingsWrapper_setattr(w, attr, value)
    \/ \E w \in Wrappers : \E attr \in WrapperAttrs : SettingsWrapper_delattr(w, attr)
    \/ \E w \in Wrappers : finalize(w)

SpecWrapper == InitWrapper /\ [][NextWrapper]_vars

----------------------------------------------------------------------------
(* Threads.  holder.<name> run by several threads on one holder: the       *)
(* interpreter may switch threads between any two statements of            *)
(* __getattr__ and of __setattr__, so each statement is a step.  A         *)
(* thread's record holds its local variables (name, raw, value), where it  *)
(* is (pc), what it has done in this access (did), and as history whether  *)
(* a reload() has returned since it looked the value up (reloaded).        *)
(* reload() itself is taken as one step.                                   *)

\* the holder's fields are the same in every step of a thread
ThreadFrame ==
    UNCHANGED <<configured, constructed, holder_args, last, failed, wrapper_vars, signal_vars>>

\* an access that enters __getattr__ whether or not the attribute is stored
Begin_AlwaysResolves(t, name) ==
    /\ threads[t].pc \in {"idle", "returned", "raised"}
    /\ threads' = [threads EXCEPT ![t] = [IdleThread EXCEPT !.pc = "entered", !.name = name]]
    /\ UNCHANGED <<settings, cached_attrs, attrs, settings_checked>>
    /\ ThreadFrame

\* holder.<name>: object.__getattribute__ returns a stored attribute, and
\* calls __getattr__ when there is none
Begin(t, name) ==
    /\ threads[t].pc \in {"idle", "returned", "raised"}
    /\ threads' = [threads EXCEPT ![t] =
                      IF name \in DOMAIN attrs
                      THEN [IdleThread EXCEPT !.pc = "returned", !.name = name,
                                              !.value = attrs[name]]
                      ELSE [IdleThread EXCEPT !.pc = "entered", !.name = name]]
    /\ UNCHANGED <<settings, cached_attrs, attrs, settings_checked>>
    /\ ThreadFrame

\* __getattr__: check_user_settings(accessed_setting=attr) or check_setting(attr)
Check(t) ==
    /\ threads[t].pc = "entered"
    /\ LET attr == threads[t].name
           errors == IF ~settings_checked THEN check_user_settings({attr})
                     ELSE check_setting(attr)
       IN IF errors # {}
          THEN /\ threads' = [threads EXCEPT ![t].pc = "raised",
                                              ![t].did = @ \cup {"check"},
                                              ![t].err = ImproperlyConfigured(errors)]
               /\ UNCHANGED settings_checked
          ELSE /\ threads' = [threads EXCEPT ![t].pc = "checked",
                                              ![t].did = @ \cup {"check"}]
               /\ settings_checked' = TRUE
    /\ UNCHANGED <<settings, cached_attrs, attrs>>
    /\ ThreadFrame

\* __getattr__: the lookup of the host's value, or the default
Lookup(t) ==
    /\ threads[t].pc = "checked"
    /\ threads' = [threads EXCEPT ![t].pc = "looked_up",
                                   ![t].did = @ \cup {"lookup"},
                                   ![t].raw = LookupValue(threads[t].name),
                                   ![t].reloaded = FALSE]
    /\ UNCHANGED <<settings, cached_attrs, attrs, settings_checked>>
    /\ ThreadFrame

\* __getattr__: value = self.make_imports(attr, value)
Import(t) ==
    /\ threads[t].pc = "looked_up"
    /\ LET imported == make_imports(threads[t].name, threads[t].raw)
       IN threads' = [threads EXCEPT ![t].pc = IF imported.ok THEN "imported" ELSE "raised",
                                     ![t].did = @ \cup {"imports"},
                                     ![t].value = imported.v,
                                     ![t].err = imported.err]
    /\ UNCHANGED <<settings, cached_attrs, attrs, settings_checked>>
    /\ ThreadFrame

\* __getattr__: if attr in self._validators: self._validators[attr](value)
CallValidator(t) ==
    /\ threads[t].pc = "imported"
    /\ LET attr == threads[t].name
           checked == Validate(attr, threads[t].value)
       IN threads' = [threads EXCEPT ![t].pc = IF checked.ok THEN "validated" ELSE "raised",
                                     ![t].did = IF attr \in DOMAIN validators
                                                THEN @ \cup {"validator"} ELSE @,
                                     ![t].err = checked.err]
    /\ UNCHANGED <<settings, cached_attrs, attrs, settings_checked>>
    /\ ThreadFrame

\* __setattr__: self._cached_attrs.add(attr)
NoteCached(t) ==
    /\ threads[t].pc = "validated"
    /\ LET attr == threads[t].name
       IN cached_attrs' = IF attr[1] # "_" /\ attr \in DOMAIN defaults
                          THEN cached_attrs \cup {attr}
                          ELSE cached_attrs
    /\ threads' = [threads EXCEPT ![t].pc = "noted"]
    /\ UNCHANGED <<settings, attrs, settings_checked>>
    /\ ThreadFrame

\* a store that resolves the host's value again when it stores
StoreAttr_Fresh(t) ==
    /\ threads[t].pc = "noted"
    /\ attrs' = (threads[t].name :> Resolve(threads[t].name).v) @@ attrs
    /\ threads' = [threads EXCEPT ![t].pc = "returned", ![t].did = @ \cup {"store"}]
    /\ UNCHANGED <<settings, cached_attrs, settings_checked>>
    /\ ThreadFrame

\* __setattr__: super().__setattr__(attr, val), and __getattr__ returns value
StoreAttr(t) ==
    /\ threads[t].pc = "noted"
    /\ attrs' = (threads[t].name :> threads[t].value) @@ attrs
    /\ threads' = [threads EXCEPT ![t].pc = "returned", ![t].did = @ \cup {"store"}]
    /\ UNCHANGED <<settings, cached_attrs, settings_checked>>
    /\ ThreadFrame

\* holder.reload() while threads are in __getattr__
ReloadInFlight ==
    /\ reload("reload", NoName)
    /\ threads' = [t \in Threads |->
                      IF /\ cached_attrs \subseteq DOMAIN attrs
                         /\ threads[t].pc \in {"looked_up", "imported", "validated"}
                      THEN [threads[t] EXCEPT !.reloaded = TRUE]
                      ELSE threads[t]]
    /\ UNCHANGED <<configured, settings, constructed, holder_args, wrapper_vars, signal_vars>>

\* a holder that has been constructed over a host whose namespace is valid
InitThreads ==
    /\ configured = TRUE
    /\ settings \in {NoMapping} \cup {MOCK_SETTING :> u : u \in ThreadHosts}
    /\ constructed = TRUE
    /\ \E args \in ThreadConfigs : \E order \in Orders(args.import_strings) :
          /\ setting_name = args.setting_name
          /\ defaults = args.defaults
          /\ imports = order
          /\ removed_settings = args.removed_settings
          /\ validators = args.validators
    /\ check_user_settings({}) = {}
    /\ cached_attrs = {}
    /\ settings_checked = TRUE
    /\ attrs = NoMapping
    /\ signal = [NoSignal EXCEPT !.receivers =
                     <<[uid |-> dispatch_uid(setting_name), holder |-> "holder"]>>]
    /\ other = NoOther
    /\ last = Last("__init__", NoName, Returned(NoneVal), {"check_user_settings"})
    /\ failed = {}
    /\ to_restore = [w \in Wrappers |-> <<>>]
    /\ before = [w \in Wrappers |-> NoChange]
    /\ threads = [t \in Threads |-> IdleThread]

\* the steps of the threads' accesses
NextRace ==
    \/ \E t \in Threads : \E name \in ThreadNames : Begin(t, name)
    \/ \E t \in Threads : Check(t)
    \/ \E t \in Threads : Lookup(t)
    \/ \E t \in Threads : Import(t)
    \/ \E t \in Threads : CallValidator(t)
    \/ \E t \in Threads : NoteCached(t)
    \/ \E t \in Threads : StoreAttr(t)

\* threads that race for the first access of a name
SpecRace == InitThreads /\ [][NextRace]_vars

\* the accesses, with reloads and changes of the host between their steps
NextThreads ==
    \/ NextRace
    \/ ReloadInFlight
    \/ \E value \in ThreadHosts \cup {NoneVal} : HostChange(value)

SpecThreads == InitThreads /\ [][NextThreads]_vars

----------------------------------------------------------------------------
(* The claims *)

\* the step is the read holder.<name>
IsAccess(name) ==
    /\ last'.op \in {"__getattr__", "__getattribute__"}
    /\ last'.name = name

\* the step ran SettingsHolder.reload
IsReload == "reload" \in last'.calls

\* what resolving name from the host's settings gives, by the contract: the
\* host's value if the namespace has the key, else the default, with the
\* imports made
ResolvedFromHost(name) ==
    make_imports(name, IF setting_name \in DOMAIN settings
                          /\ \E i \in 1..Len(settings[setting_name].v) :
                                 settings[setting_name].v[i][1] = name
                       THEN DictGet(settings[setting_name], name)
                       ELSE defaults[name])

\* C1: once an access to a name of defaults has succeeded, the value is stored
\* on the holder; it stays stored and the same until a reload; and an access
\* to a stored name returns the stored value without entering __getattr__,
\* so with no host lookup, no import resolution and no validator call.
C1_CachedAccess ==
    [][\A name \in DOMAIN defaults :
          /\ (IsAccess(name) /\ last'.ok)
                => (name \in DOMAIN attrs' /\ attrs'[name] = last'.value)
          /\ (name \in DOMAIN attrs /\ ~IsReload)
                => (name \in DOMAIN attrs' /\ attrs'[name] = attrs[name])
          /\ (name \in DOMAIN attrs /\ IsAccess(name))
                => /\ last'.ok
                   /\ last'.value = attrs[name]
                   /\ last'.op = "__getattribute__"
                   /\ last'.calls = {}]_vars

\* C1: a read of a cached name has just been served from the holder
C1_Witness ==
    /\ constructed
    /\ last.op = "__getattribute__"
    /\ last.name \in DOMAIN defaults
    /\ last.name \in cached_attrs

\* C2: a change of the host's namespace without a reload leaves the cached
\* values alone, a read of a cached name returns the cached value whatever
\* the host holds now, and after the handler has fired for the namespace (or
\* reload() was called) no name of defaults is stored, so that the next read
\* resolves, and what it returns is resolved from the host state of that read.
C2_ReloadScenario ==
    [][/\ last'.op = "host_change" => (attrs' = attrs /\ cached_attrs' = cached_attrs)
       /\ \A name \in DOMAIN defaults \cap DOMAIN attrs :
             IsAccess(name) => (last'.ok /\ last'.value = attrs[name])
       /\ (IsReload /\ last'.ok) => \A name \in DOMAIN defaults : name \notin DOMAIN attrs'
       /\ \A name \in DOMAIN defaults \ DOMAIN attrs :
             (IsAccess(name) /\ last'.ok)
                => (ResolvedFromHost(name).ok /\ last'.value = ResolvedFromHost(name).v)]_vars

\* C2: a read has returned a cached value that is no longer what the host's
\* namespace resolves to
C2_Witness ==
    /\ constructed
    /\ last.op = "__getattribute__"
    /\ last.name \in DOMAIN defaults
    /\ ResolvedFromHost(last.name).ok
    /\ last.value # ResolvedFromHost(last.name).v

\* C3: when reload() returns, the set of cached names is empty and none of the
\* names that were cached is stored on the holder any more, all of them and
\* not some; a read of a name of defaults in that state enters __getattr__ and
\* runs the check, the lookup and the import resolution again.
C3_ReloadClearsAll ==
    [][/\ (IsReload /\ last'.ok)
            => /\ cached_attrs' = {}
               /\ \A name \in cached_attrs : name \notin DOMAIN attrs'
               /\ last'.deleted = cached_attrs
       /\ ("reload" \in last.calls /\ last.ok)
            => \A name \in DOMAIN defaults :
                  IsAccess(name)
                     => /\ last'.op = "__getattr__"
                        /\ "check_user_settings" \in last'.calls
                        /\ last'.ok => {"user_settings", "make_imports"} \subseteq last'.calls]_vars

\* C3: reload() has returned after deleting two cached names
C3_Witness ==
    /\ last.op = "reload"
    /\ last.ok
    /\ Cardinality(last.deleted) >= 2
    /\ cached_attrs = {}

\* C4: the handler called with the holder's namespace name runs reload(); with
\* any other setting name it returns without raising and leaves the cached
\* names and every stored value as they were.
C4_HandlerFilters ==
    [][last'.op = "wrapper"
          => IF last'.name = setting_name
             THEN /\ IsReload
                  /\ cached_attrs' = {}
                  /\ \A name \in cached_attrs : name \notin DOMAIN attrs'
             ELSE /\ last'.ok
                  /\ ~IsReload
                  /\ cached_attrs' = cached_attrs
                  /\ attrs' = attrs]_vars

\* C4: the handler has been called for another setting while a name was cached
C4_Witness ==
    /\ last.op = "wrapper"
    /\ last.name # setting_name
    /\ last.ok
    /\ cached_attrs # {}

\* the step is a read of an attribute of the holder
IsAnyAccess == last'.op \in {"__getattr__", "__getattribute__"}

C6_LazyPerName ==
    /\ last.op = "__init__" => last.ok
    /\ (last.op \in {"__getattr__", "__getattribute__"} /\ last.name \in DOMAIN defaults)
          => last.err.exc # "ImproperlyConfigured"

\* C7 as stated: the first read of a name of defaults returns defaults[name]
\* when the host's namespace is absent or has no key for the name, and the
\* host's value with the imports made when it has one.
C7_DefaultReturnedAsIs ==
    (last.op = "__getattr__" /\ last.ok /\ last.name \in DOMAIN defaults)
       => last.value = IF DictHas(user_settings, last.name)
                       THEN make_imports(last.name, DictGet(user_settings, last.name)).v
                       ELSE defaults[last.name]

\* C7 as amended: a first read of a name of defaults that succeeds returns
\* the value with the imports made, of defaults[name] when the host's
\* namespace is absent or has no key for the name, of the host's value when it
\* has one.
C7_FirstAccessValue ==
    (last.op = "__getattr__" /\ last.ok /\ last.name \in DOMAIN defaults)
       => /\ DictHas(user_settings, last.name)
                => last.value = make_imports(last.name, DictGet(user_settings, last.name)).v
          /\ ~DictHas(user_settings, last.name)
                => last.value = make_imports(last.name, defaults[last.name]).v

\* C7: a first read has returned the import made from the default, which is
\* not the default itself
C7_Witness ==
    /\ last.op = "__getattr__"
    /\ last.ok
    /\ last.name \in DOMAIN defaults
    /\ ~DictHas(user_settings, last.name)
    /\ last.value # defaults[last.name]
    /\ last.value = Obj(FUNCTION_PATH)

\* the host's value of name (or the default) resolves and passes the validator
HostValueValid(name) ==
    /\ ResolvedFromHost(name).ok
    /\ name \in DOMAIN validators
          => ValidatorAccepts(validators[name], ResolvedFromHost(name).v)

\* C8: a read that raises leaves the set of cached names and the stored
\* values as they were; and a name whose resolution has raised (and no reload
\* since) is resolved again by a later read, which succeeds as soon as the
\* host's value is valid.
C8_FailureCachesNothing ==
    [][/\ (IsAnyAccess /\ ~last'.ok) => (cached_attrs' = cached_attrs /\ attrs' = attrs)
       /\ \A name \in failed :
             (IsAccess(name) /\ HostValueValid(name))
                => /\ last'.ok
                   /\ name \notin DOMAIN attrs
                         => /\ last'.op = "__getattr__"
                            /\ "make_imports" \in last'.calls
                            /\ last'.value = ResolvedFromHost(name).v]_vars

\* C8: a read of a name whose resolution had raised has succeeded without a
\* reload in between, next to another cached name
C8_Witness ==
    /\ last.op = "__getattr__"
    /\ last.ok
    /\ last.name \in failed
    /\ cached_attrs \ {last.name} # {}

Paths ==
    {FOO, FOOBAR, BAZ, Dotted(FOO, ZERO), Dotted(FOO, BAR), Dotted(Dotted(FOO, BAR), FOO)}

\* some marker, after the substitution of its wildcards, is the path or starts
\* with the path and a period
GovernedAtSegmentBoundary(path) ==
    \E i \in 1..Len(imports) :
       LET name == substitute_wildcards(path, imports[i].pattern)
       IN name = path \/ StartsWith(name, path \o <<DOT>>)

\* C9: a path is import-governed if and only if some marker, after the
\* substitution, equals the path or starts with the path and a period; a
\* setting whose name is only the beginning of a marker's first segment is not
\* governed and its value is returned unchanged.
C9_SegmentBoundary ==
    constructed
       => /\ \A path \in Paths :
                is_import_setting(path).is_import <=> GovernedAtSegmentBoundary(path)
          /\ \A name \in DOMAIN defaults :
                ~GovernedAtSegmentBoundary(name)
                   => make_imports(name, defaults[name]) = Returned(defaults[name])

Segments == {FOO, FO, BAR, BAZ, ZERO}

\* C10: the marker FOO.* makes FOO a nested match and every FOO.<key> an exact
\* match; the marker FOO.*.FOO makes FOO.<k>.FOO an exact match for any k and
\* governs no FOO.<k>.<j> with j other than FOO.
C10_Wildcards ==
    constructed
       => /\ imports = <<Marker(Dotted(FOO, <<STAR>>))>>
                => /\ is_import_setting(FOO) = ImportSettingResults(TRUE, FALSE, TRUE)
                   /\ \A key \in Segments :
                         is_import_setting(Dotted(FOO, key))
                            = ImportSettingResults(TRUE, FALSE, FALSE)
          /\ imports = <<Marker(Dotted(Dotted(FOO, <<STAR>>), FOO))>>
                => \A k \in Segments :
                      /\ is_import_setting(Dotted(Dotted(FOO, k), FOO))
                            = ImportSettingResults(TRUE, FALSE, FALSE)
                      /\ \A j \in Segments \ {FOO} :
                            ~is_import_setting(Dotted(Dotted(FOO, k), j)).is_import


\* the access last made entered __getattr__, passed the checks and ran
\* make_imports on the value the lookup gave
RanImports == constructed /\ last.op = "__getattr__" /\ "make_imports" \in last.calls

\* the holder has one import marker, of this pattern
SoleMarker(pattern) == Len(imports) = 1 /\ imports[1].pattern = pattern

\* value is an import string that names an object of the environment
IsImportString(value) ==
    /\ value.k = "str"
    /\ \E i \in 1..Len(value.v) : value.v[i] = DOT
    /\ Importable(RSplit1(value.v)[1])
    /\ RSplit1(value.v)[2] \in ModuleAttributes(RSplit1(value.v)[1])

\* what the holder's one marker asks for at an exact match of an import
\* string: the object itself for a plain marker, the result of calling it
\* for a bytes marker
MarkedImport(value) ==
    IF imports[1].is_bytes THEN CallResult(Obj(value.v)) ELSE Obj(value.v)

\* the objects the marker has invoked for these import strings: each once, in
\* order, for a bytes marker, none for a plain one
MarkedCalls(values) ==
    IF imports[1].is_bytes THEN [i \in 1..Len(values) |-> Obj(values[i].v)] ELSE <<>>

\* the items of a dict value that the holder's one marker governs under name
GovernedItems(name, value) ==
    {i \in 1..Len(value.v) :
        SoleMarker(Dotted(name, <<STAR>>)) \/ SoleMarker(Dotted(name, value.v[i][1]))}

\* C11: on an exact match of an import string, a plain marker gives the
\* imported object itself and invokes nothing, a bytes marker gives the result
\* of calling the object and invokes it exactly once; and so for every element
\* reached through a list marker, a dict key marker and a wildcard marker.
C11_MarkerKinds ==
    RanImports =>
        LET name == last.name
            raw == LookupValue(name)
        IN /\ (SoleMarker(name) /\ IsImportString(raw))
                => /\ last.invoked = MarkedCalls(<<raw>>)
                   /\ last.ok => last.value = MarkedImport(raw)
           /\ (/\ SoleMarker(Dotted(name, ZERO))
               /\ raw.k \in {"list", "tuple"}
               /\ \A i \in 1..Len(raw.v) : IsImportString(raw.v[i]))
                => /\ last.invoked = MarkedCalls(raw.v)
                   /\ last.ok => \A i \in 1..Len(raw.v) :
                                     last.value.v[i] = MarkedImport(raw.v[i])
           /\ (/\ raw.k = "dict"
               /\ GovernedItems(name, raw) # {}
               /\ \A i \in GovernedItems(name, raw) : IsImportString(raw.v[i][2]))
                => /\ Len(last.invoked) =
                         IF imports[1].is_bytes
                         THEN Cardinality(GovernedItems(name, raw)) ELSE 0
                   /\ \A j \in 1..Len(last.invoked) :
                         \E i \in GovernedItems(name, raw) :
                             last.invoked[j] = Obj(raw.v[i][2].v)
                   /\ last.ok => \A i \in GovernedItems(name, raw) :
                                     last.value.v[i][2] = MarkedImport(raw.v[i][2])

\* C11: an access through a bytes wildcard marker has returned a dict whose
\* two import strings were each called once
C11_Witness ==
    /\ RanImports
    /\ last.ok
    /\ SoleMarker(Dotted(last.name, <<STAR>>))
    /\ imports[1].is_bytes
    /\ Len(last.invoked) = 2
    /\ \A i \in 1..Len(last.value.v) : last.value.v[i][2] = CallResult(last.invoked[i])

\* C12: an access that returns from a nested match gives, for a list or a
\* tuple, a container of the same kind, length and order in which every
\* element is the element resolved under <name>.0, and for a dict a dict of
\* the same keys in which every value is the value resolved under <name>.<key>.
C12_ContainerShape ==
    (RanImports /\ last.ok /\ is_import_setting(last.name).is_nested) =>
        LET name == last.name
            raw == LookupValue(name)
        IN /\ raw.k \in {"list", "tuple"}
                => /\ last.value.k = raw.k
                   /\ Len(last.value.v) = Len(raw.v)
                   /\ \A i \in 1..Len(raw.v) :
                         /\ make_imports(Dotted(name, ZERO), raw.v[i]).ok
                         /\ last.value.v[i] = make_imports(Dotted(name, ZERO), raw.v[i]).v
           /\ raw.k = "dict"
                => /\ last.value.k = "dict"
                   /\ Len(last.value.v) = Len(raw.v)
                   /\ \A i \in 1..Len(raw.v) :
                         /\ last.value.v[i][1] = raw.v[i][1]
                         /\ make_imports(Dotted(name, raw.v[i][1]), raw.v[i][2]).ok
                         /\ last.value.v[i][2] =
                                make_imports(Dotted(name, raw.v[i][1]), raw.v[i][2]).v

\* C12: an access has returned a tuple of two elements, each one imported
C12_Witness ==
    /\ RanImports
    /\ last.ok
    /\ is_import_setting(last.name).is_nested
    /\ LookupValue(last.name).k = "tuple"
    /\ last.value.k = "tuple"
    /\ Len(last.value.v) = 2
    /\ \A i \in 1..2 : last.value.v[i] = Obj(LookupValue(last.name).v[i].v)

\* C13: at an import-governed name, an access whose value is not a string at
\* an exact match raises "'<name>' should be a string", an access whose value
\* is neither a list, a tuple nor a dict (a scalar or a plain string) at a
\* nested match raises "'<name>' should be a mutable sequence or mapping", and
\* in both cases nothing is returned and nothing is stored.
C13_NotImportable ==
    (RanImports /\ is_import_setting(last.name).is_import) =>
        LET name == last.name
            raw == LookupValue(name)
            nested == is_import_setting(name).is_nested
        IN /\ (~nested /\ raw.k # "str")
                => /\ ~last.ok
                   /\ last.err = ValueError("should_be_a_string", name, raw)
                   /\ name \notin DOMAIN attrs
           /\ (nested /\ raw.k \notin {"list", "tuple", "dict"})
                => /\ ~last.ok
                   /\ last.err = ValueError("should_be_a_mutable_sequence_or_mapping", name, raw)
                   /\ name \notin DOMAIN attrs

\* C14: import_from_string(val, setting) raises an ImportError in exactly
\* three cases: val has no ".", the module named before the last "." cannot be
\* imported, or that module has no attribute of the name after the last ".";
\* the error names val and setting; in every other case the call returns the
\* attribute (which the access returns, calls for a bytes marker, or hands to
\* the validator).
C14_ImportErrors ==
    (/\ RanImports
     /\ is_import_setting(last.name).is_import
     /\ ~is_import_setting(last.name).is_nested
     /\ LookupValue(last.name).k = "str") =>
        LET setting == last.name
            val == LookupValue(setting).v
            split == RSplit1(val)
            fails == \/ Len(split) # 2
                     \/ ~Importable(split[1])
                     \/ split[2] \notin ModuleAttributes(split[1])
        IN IF fails
           THEN /\ ~last.ok
                /\ \E what \in {"not_a_module_path", "module_not_found", "no_attribute"} :
                       last.err = ImportError(what, val, setting)
           ELSE /\ last.err.exc # "ImportError"
                /\ last.ok => last.value \in {Obj(val), CallResult(Obj(val))}
                /\ ~last.ok => last.err = ValueError("validator", setting, CallResult(Obj(val)))

\* C15: reload(), by call or through the handler, and every access, returning
\* or raising, leave the defaults, the import markers, the removed settings,
\* the validators and the namespace name as the constructor set them.
C15_ConstructionArgsKept ==
    [][(IsReload \/ last'.op \in {"wrapper", "__getattr__", "__getattribute__"})
          => /\ defaults' = defaults
             /\ imports' = imports
             /\ removed_settings' = removed_settings
             /\ validators' = validators
             /\ setting_name' = setting_name]_vars

\* C15: reload() has run on a holder that has defaults, removed settings and
\* a validator, after an access had filled its cache
C15_Witness ==
    /\ constructed
    /\ last.op = "reload"
    /\ last.deleted # {}
    /\ defaults # NoMapping
    /\ removed_settings # NoMapping
    /\ validators # NoMapping

\* C19: the validator of a name is called after the imports are made and
\* before the value is stored, and with the import-resolved value: an access
\* whose import resolution raises calls no validator; a value the validator
\* accepts is returned and stored; a value it rejects is never stored and the
\* validator's own error, about the import-resolved value, is what the access
\* raises; so every cached name that has a validator holds an accepted value.
C19_ValidatedBeforeCached ==
    /\ \A name \in (cached_attrs \cap DOMAIN attrs) \cap DOMAIN validators :
          ValidatorAccepts(validators[name], attrs[name])
    /\ (RanImports /\ last.name \in DOMAIN validators) =>
          LET name == last.name
              imported == make_imports(name, LookupValue(name))
          IN IF ~imported.ok
             THEN ~last.ok /\ last.err = imported.err /\ "validator" \notin last.calls
             ELSE /\ "validator" \in last.calls
                  /\ IF ValidatorAccepts(validators[name], imported.v)
                     THEN /\ last.ok
                          /\ last.value = imported.v
                          /\ name \in cached_attrs
                          /\ attrs[name] = imported.v
                     ELSE /\ ~last.ok
                          /\ last.err = ValueError("validator", name, imported.v)
                          /\ "__setattr__" \notin last.calls
                          /\ name \notin DOMAIN attrs

\* C19: an access has stored an imported object that its validator accepted,
\* where the import string it was looked up as would have been rejected
C19_Witness ==
    /\ RanImports
    /\ last.ok
    /\ last.name \in DOMAIN validators
    /\ last.name \in cached_attrs
    /\ attrs[last.name] = last.value
    /\ last.value # LookupValue(last.name)
    /\ ValidatorAccepts(validators[last.name], last.value)
    /\ ~ValidatorAccepts(validators[last.name], LookupValue(last.name))

\* the step ran check_user_settings: in __init__, or in a __getattr__ that
\* found the settings unchecked
RanUserCheck == "check_user_settings" \in last'.calls

\* the names that check looked at: the keys of the host's namespace and the
\* accessed name, if there is one
CheckedNames ==
    DictKeys(user_settings') \cup (IF last'.op = "__getattr__" THEN {last'.name} ELSE {})

\* the step ended with the error of check_user_settings
UserCheckRaised ==
    /\ RanUserCheck
    /\ ~last'.ok
    /\ last'.err.exc = "ImproperlyConfigured"
    /\ last'.err.what = "settings"

\* C20: check_user_settings raises exactly when a checked name (a key of the
\* host's namespace, or the accessed name) is not in defaults, and its error
\* has one line for every such name; _settings_checked turns true only in a
\* step whose check found no invalid name, a check that raises leaves it
\* false, and a reload() that returns sets it false.
C20_UserCheck ==
    [][/\ RanUserCheck =>
             LET invalid == CheckedNames \ DOMAIN defaults'
             IN /\ UserCheckRaised <=> invalid # {}
                /\ UserCheckRaised
                      => /\ {line.name : line \in last'.err.lines} = invalid
                         /\ Cardinality(last'.err.lines) = Cardinality(invalid)
                         /\ ~settings_checked'
                /\ invalid = {} => settings_checked'
       /\ (settings_checked' /\ ~settings_checked)
             => (RanUserCheck /\ CheckedNames \subseteq DOMAIN defaults')
       /\ (IsReload /\ last'.ok) => ~settings_checked']_vars

\* C20: the check of an access, after a reload, has raised with one line for
\* each of two invalid names and left the flag false
C20_Witness ==
    /\ constructed
    /\ last.op = "__getattr__"
    /\ "check_user_settings" \in last.calls
    /\ ~last.ok
    /\ last.err.what = "settings"
    /\ Cardinality(last.err.lines) = 2
    /\ ~settings_checked

\* the step ran finalize() of wrapper w
IsFinalize(w) ==
    /\ last'.op = "SettingsWrapper.finalize"
    /\ last'.name = w
    /\ (last' # last \/ to_restore[w] = <<>>)

\* C16: finalize() of a wrapper that has set and deleted settings leaves the
\* host settings, values and absences alike, as they were before the
\* wrapper's first change, and leaves its undo record empty; finalize() of a
\* wrapper with no change leaves the settings alone.  So with nested
\* wrappers, the inner finalized first, each finalize gives back the settings
\* of that wrapper's first change.
C16_FinalizeRestores ==
    [][\A w \in Wrappers :
          IsFinalize(w) =>
              /\ to_restore'[w] = <<>>
              /\ settings' = IF to_restore[w] # <<>> THEN before[w].settings ELSE settings]_vars

\* C16: the inner of two nested wrappers, after a set and a delete, has just
\* been finalized: the settings are those the outer wrapper had made, and the
\* outer wrapper, which changed a setting twice, has its changes to undo
C16_Witness ==
    /\ last.op = "SettingsWrapper.finalize"
    /\ last.name = wrapper2
    /\ to_restore[wrapper2] = <<>>
    /\ before[wrapper2].made
    /\ before[wrapper2].outer = {wrapper1}
    /\ Len(to_restore[wrapper1]) = 2
    /\ settings = before[wrapper2].settings
    /\ settings # before[wrapper1].settings
    /\ TEST_SETTING \notin DOMAIN settings
    /\ MOCK_SETTING \in DOMAIN settings

\* the step is the start of an access by thread t
IsBegin(t) ==
    /\ threads'[t] # threads[t]
    /\ threads[t].pc \in {"idle", "returned", "raised"}
    /\ threads'[t].pc \in {"entered", "returned"}
    /\ threads'[t].raw = NoneVal
    /\ threads'[t].did = {}

\* C17: when threads race for the first access of a name, whatever the
\* interleaving: an access that returns, returns the value resolved from the
\* host; an access raises only if that resolution raises; once an access has
\* returned the name is in the set of cached names and the value is stored;
\* and an access that starts when the value is stored returns it and does no
\* check, lookup, import or validator call.  (That both threads can do all of
\* this work is C17_Witness.)
C17_RaceOutcome ==
    [][\A t \in Threads :
          LET access == threads'[t]
          IN /\ access.pc = "returned"
                  => /\ Resolve(access.name).ok
                     /\ access.value = Resolve(access.name).v
                     /\ access.name \in cached_attrs'
                     /\ access.name \in DOMAIN attrs'
                     /\ attrs'[access.name] = access.value
             /\ access.pc = "raised"
                  => (~Resolve(access.name).ok /\ access.err = Resolve(access.name).err)
             /\ (IsBegin(t) /\ access.name \in DOMAIN attrs)
                  => /\ access.pc = "returned"
                     /\ access.value = attrs[access.name]
                     /\ access.did = {}]_vars

\* C17: two threads have each made the first access to the same name, and
\* each has run the check, the host lookup, the import resolution, the
\* validator and the store once; both hold the same value and the name is
\* cached
C17_Witness ==
    /\ \A t \in Threads :
          /\ threads[t].pc = "returned"
          /\ threads[t].name = FOO
          /\ threads[t].did = {"check", "lookup", "imports", "validator", "store"}
          /\ threads[t].value = attrs[FOO]
          /\ threads[t].value # threads[t].raw
    /\ cached_attrs = {FOO}

\* the step is the store that ends thread t's access
IsStore(t) == threads[t].pc = "noted" /\ threads'[t].pc = "returned"

\* the step is a reload() that returned: no thread moved and the set of
\* cached names is empty
IsReloadInFlight ==
    /\ \A t \in Threads : threads'[t].pc = threads[t].pc
    /\ settings' = settings
    /\ cached_attrs' = {}
    /\ ~settings_checked'

\* C18: an access stores the value it has resolved from what it read of the
\* host, whether or not a reload() has cleared the cache, and the host has
\* changed, since that read; the stored value is what every access that
\* starts afterwards returns, and it stays stored until a reload() deletes
\* it or another access that was in flight stores its own.
C18_StaleStore ==
    [][\A t \in Threads :
          LET name == threads[t].name
          IN /\ IsStore(t)
                  => /\ name \in DOMAIN attrs'
                     /\ attrs'[name] = make_imports(name, threads[t].raw).v
                     /\ threads'[t].value = attrs'[name]
             /\ (IsBegin(t) /\ threads'[t].name \in DOMAIN attrs)
                  => /\ threads'[t].pc = "returned"
                     /\ threads'[t].value = attrs[threads'[t].name]
                     /\ threads'[t].did = {}
             /\ \A stored \in DOMAIN attrs :
                    (stored \notin DOMAIN attrs' \/ attrs'[stored] # attrs[stored])
                        => \/ \E u \in Threads : IsStore(u) /\ threads[u].name = stored
                           \/ IsReloadInFlight /\ stored \notin DOMAIN attrs']_vars

\* C18: the host changed and reload() returned while a thread was between
\* its lookup and its store; the thread has stored the value of before the
\* reload, which is not what the host resolves to now, and the other thread,
\* starting afterwards, has been given that value with no resolution
C18_Witness ==
    /\ last.op = "reload"
    /\ last.ok
    /\ FOO \in cached_attrs
    /\ FOO \in DOMAIN attrs
    /\ ResolvedFromHost(FOO).ok
    /\ ResolvedFromHost(FOO).v # attrs[FOO]
    /\ \E t, u \in Threads :
          /\ t # u
          /\ threads[t].pc = "returned"
          /\ "store" \in threads[t].did
          /\ threads[t].reloaded
          /\ threads[t].value = attrs[FOO]
          /\ threads[u].pc = "returned"
          /\ threads[u].did = {}
          /\ threads[u].value = attrs[FOO]

\* C23: is_import_setting(path) is decided by the set of markers and the path:
\* every marker that matches the path gives the outcome the call returns, so
\* that the outcome is the same whichever of the matching markers the
\* iteration of the set visits first.
C23_MarkerOrder ==
    constructed =>
        \A path \in Paths : \A i \in 1..Len(imports) :
            MarkerMatches(path, imports[i])
                => is_import_setting(path) =
                      ImportSettingResults(
                          TRUE, imports[i].is_bytes,
                          Len(substitute_wildcards(path, imports[i].pattern)) > Len(path))

C24_ReloadAlwaysSucceeds ==
    [][(last'.op = "reload" /\ (last' # last \/ last.op # "reload"))
          => /\ last'.ok
             /\ cached_attrs' = {}
             /\ DOMAIN attrs' \cap DOMAIN defaults = {}
             /\ last.op = "reload"
                   => (attrs' = attrs /\ cached_attrs' = cached_attrs
                       /\ settings_checked' = settings_checked)]_vars

\* the step sent settings_configured
IsSend == signal'.sent # signal.sent

\* the step is the first call of configure() or _setup() that has completed
\* without error: the call of func returned, and none had returned before
IsFirstCompleted ==
    /\ last'.op \in {"configure", "_setup"}
    /\ ~configured
    /\ configured'

\* C21: over the calls of the host's configure() and _setup(), the signal
\* settings_configured is sent at most once, by the first of these calls that
\* completes without error, with the accessed setting name when that call is
\* _setup(name); and every holder constructed before the host is configured
\* has its user settings checked when the signal is sent.
C21_ConfiguredSignal ==
    [][/\ Len(signal'.sent) <= 1
       /\ IsSend <=> IsFirstCompleted
       /\ IsSend =>
             /\ signal'.sent[1] = IF last'.op = "_setup" /\ last'.name # NoName
                                  THEN {last'.name}
                                  ELSE {}
             /\ constructed => "holder" \in signal'.called
             /\ other.constructed => "other" \in signal'.called]_vars

====
